---------------------------- MODULE Spec2Model ----------------------------
(***************************************************************************)
(* gen-stream: generator-based streams (src/src/lib.rs).                   *)
(*                                                                         *)
(* Three adapters (GenStream, GenPerpetualStream, GenTryStream) wrap a     *)
(* generator and expose it through Stream::poll_next; the gen_await!       *)
(* macro lets a generator body wait on a nested future using the waker     *)
(* that set_task_waker installed in the thread-local slot.                 *)
(*                                                                         *)
(* A generator body is a list of instructions, revealed as it runs: each   *)
(* pull may extend the known body by the instructions the step executes.   *)
(***************************************************************************)
EXTENDS Integers, Sequences, FiniteSets, TLC

\* ------------------------------------------------------------- bounds
MaxPulls == 4     \* pulls made on all adapters together
MaxBody  == 3     \* instructions run by all generators together
MaxK     == 2     \* Pending answers of one nested operation
MaxChain == 2     \* instructions one step may run (immediate awaits, then one more)

Adapters == {1, 2}
Wakers   == {1, 2}
Values   == {1, 2}     \* items a body yields
Payloads == {7}        \* what a nested operation is ready with
Errors   == {1, 2}
Kinds    == {"GenStream", "GenPerpetualStream", "GenTryStream"}
\* The two instances are interchangeable: one order of each pair of kinds.
KindPairs ==
  LET rank == [k \in Kinds |-> CASE k = "GenStream" -> 1
                                  [] k = "GenPerpetualStream" -> 2
                                  [] k = "GenTryStream" -> 3]
  IN {f \in [Adapters -> Kinds] : rank[f[1]] >= rank[f[2]]}

\* ------------------------------------------------- core / futures values
Some(x)     == <<"Some", x>>
None        == <<"None">>
Ready(x)    == <<"Ready", x>>
Pending     == <<"Pending">>
Ok(x)       == <<"Ok", x>>
Err(e)      == <<"Err", e>>
Yielded(v)  == <<"Yielded", v>>
Complete(r) == <<"Complete", r>>
Unit        == <<>>
\* A panic unwinding out of the call: not a value the caller receives.
Panic(why)  == <<"Panic", why>>

IsPanic(x)     == x[1] = "Panic"
IsPending(x)   == x[1] = "Pending"
IsReadyNone(x) == x[1] = "Ready" /\ x[2][1] = "None"
IsReadySome(x) == x[1] = "Ready" /\ x[2][1] = "Some"

\* Poll::map(Some): Ready(t) -> Ready(Some(t)), Pending -> Pending.
PollMapSome(p) == IF p[1] = "Ready" THEN Ready(Some(p[2])) ELSE Pending
\* Poll::map(Ok): Ready(t) -> Ready(Ok(t)), Pending -> Pending.
PollMapOk(p) == IF p[1] = "Ready" THEN Ready(Ok(p[2])) ELSE Pending

\* ----------------------------------------------------- generator bodies
\* What a body does next: wait on a nested operation through gen_await!,
\* yield Poll::Ready(v), return, or panic (a compiler-made generator that is
\* resumed after it returned panics).
AwaitI  == [op : {"Await"}, k : 0..MaxK, v : Payloads, r : {"-"}]
YieldI  == [op : {"Yield"}, k : {0}, v : Values, r : {"-"}]
PanicI  == [op : {"Panic"}, k : {0}, v : {0}, r : {"-"}]
ReturnI(kd) ==
  CASE kd = "GenStream"          -> [op : {"Return"}, k : {0}, v : {0}, r : {"Unit"}]
    [] kd = "GenPerpetualStream" -> [op : {"Return"}, k : {0}, v : {0}, r : {"Never"}]
    [] kd = "GenTryStream"       -> [op : {"Return"}, k : {0}, v : {0}, r : {"Ok"}]
                                      \cup [op : {"Return"}, k : {0}, v : Errors, r : {"Err"}]
Instrs(kd) == AwaitI \cup YieldI \cup PanicI \cup ReturnI(kd)

\* The value of `return`: () for GenStream, Result<(), E> for GenTryStream; the
\* return type of a perpetual generator is `!`, which has no value.
ReturnValue(i) ==
  CASE i.r = "Unit" -> Unit
    [] i.r = "Ok"   -> Ok(Unit)
    [] i.r = "Err"  -> Err(i.v)
    [] OTHER        -> <<"Never">>

\* What one step can run: nothing new, or waits that are ready at their first
\* poll followed by one more instruction.
Immediate == {i \in AwaitI : i.k = 0}
Chains(kd) ==
  {<<>>} \cup UNION {{c \o <<i>> : c \in [1..(n - 1) -> Immediate], i \in Instrs(kd)}
                      : n \in 1..MaxChain}

GenStreamChains          == Chains("GenStream")
GenPerpetualStreamChains == Chains("GenPerpetualStream")
GenTryStreamChains       == Chains("GenTryStream")

\* ------------------------------------------------------ nested operation
\* The future handed to gen_await!: Pending for its first e.k polls, then
\* Ready(e.v). `polls` counts the polls already made on it.
NestedPoll(e, polls) == IF polls < e.k THEN Pending ELSE Ready(e.v)

\* std::future::poll_with_tls_waker: takes the waker out of the thread-local
\* slot, panics when none is set, polls the future with it and puts it back.
poll_with_tls_waker(slot, e, polls) ==
  IF slot = None
  THEN [panicked |-> TRUE, res |-> Pending, waker |-> None, slot |-> slot]
  ELSE [panicked |-> FALSE, res |-> NestedPoll(e, polls), waker |-> slot, slot |-> slot]

\* ------------------------------------------------------------ gen_await!
\* A generator: pc is the instruction it stands at, awaiting says that it is
\* suspended at the `yield Poll::Pending` of gen_await!, polls and yields count
\* the polls made on the pinned operation and the suspensions of this wait,
\* reg is the waker the pinned operation was last polled with (it keeps it to
\* wake the task).
NewGen == [pc |-> 1, awaiting |-> FALSE, polls |-> 0, yields |-> 0, reg |-> None]

\* gen_await! that takes the waker once, before the loop: after a suspension
\* it polls with the waker of the pull that started the wait.
gen_await_staleWaker(e, g, slot) ==
  LET w == IF g.awaiting THEN g.reg ELSE slot
      p == poll_with_tls_waker(w, e, g.polls) IN
  IF p.panicked
  THEN [ctl |-> "panic", g |-> g, used |-> <<p.waker>>, rec |-> <<>>]
  ELSE IF p.res[1] = "Ready"
  THEN [ctl |-> "break",
        g |-> [pc |-> g.pc + 1, awaiting |-> FALSE, polls |-> 0, yields |-> 0,
               reg |-> None],
        used |-> <<p.waker>>,
        rec |-> <<[k |-> e.k, x |-> e.v, polls |-> g.polls + 1,
                   yields |-> g.yields, got |-> p.res[2]]>>]
  ELSE [ctl |-> "yield",
        g |-> [g EXCEPT !.awaiting = TRUE, !.polls = @ + 1, !.yields = @ + 1,
                        !.reg = p.waker],
        used |-> <<p.waker>>, rec |-> <<>>]

\* gen_await! with `$e` evaluated inside the loop: every turn polls a new
\* operation instead of the pinned one.
gen_await_repins(e, g, slot) ==
  LET p == poll_with_tls_waker(slot, e, 0) IN
  IF p.panicked
  THEN [ctl |-> "panic", g |-> g, used |-> <<p.waker>>, rec |-> <<>>]
  ELSE IF p.res[1] = "Ready"
  THEN [ctl |-> "break",
        g |-> [pc |-> g.pc + 1, awaiting |-> FALSE, polls |-> 0, yields |-> 0,
               reg |-> None],
        used |-> <<p.waker>>,
        rec |-> <<[k |-> e.k, x |-> e.v, polls |-> g.polls + 1,
                   yields |-> g.yields, got |-> p.res[2]]>>]
  ELSE [ctl |-> "yield",
        g |-> [g EXCEPT !.awaiting = TRUE, !.polls = @ + 1, !.yields = @ + 1,
                        !.reg = p.waker],
        used |-> <<p.waker>>, rec |-> <<>>]

\* One turn of the loop of gen_await! on the operation e: poll it with the
\* thread-local waker; Ready(x) breaks with x, anything else yields
\* Poll::Pending and the loop turns again at the next resume.
gen_await(e, g, slot) ==
  LET p == poll_with_tls_waker(slot, e, g.polls) IN
  IF p.panicked
  THEN [ctl |-> "panic", g |-> g, used |-> <<p.waker>>, rec |-> <<>>]
  ELSE IF p.res[1] = "Ready"
  THEN [ctl |-> "break",
        g |-> [pc |-> g.pc + 1, awaiting |-> FALSE, polls |-> 0, yields |-> 0,
               reg |-> None],
        used |-> <<p.waker>>,
        rec |-> <<[k |-> e.k, x |-> e.v, polls |-> g.polls + 1,
                   yields |-> g.yields, got |-> p.res[2]]>>]
  ELSE [ctl |-> "yield",
        g |-> [g EXCEPT !.awaiting = TRUE, !.polls = @ + 1, !.yields = @ + 1,
                        !.reg = p.waker],
        used |-> <<p.waker>>, rec |-> <<>>]

\* ------------------------------------------------------ Generator::resume
\* Runs the body from g.pc to its next yield, return or panic. state is the
\* GeneratorState (or the panic), used the wakers the nested polls were given,
\* done the waits that finished, hi the last instruction the step ran.
RECURSIVE run(_, _, _, _, _)
run(body, g, slot, used, done) ==
  IF g.pc > Len(body)
  THEN [g |-> g, state |-> <<"Unrevealed">>, used |-> used, done |-> done, hi |-> g.pc]
  ELSE LET i == body[g.pc] IN
    CASE i.op = "Await" ->
           LET h == gen_await(i, g, slot) IN
           CASE h.ctl = "break" -> run(body, h.g, slot, used \o h.used, done \o h.rec)
             [] h.ctl = "yield" -> [g |-> h.g, state |-> Yielded(Pending),
                                    used |-> used \o h.used, done |-> done, hi |-> g.pc]
             [] OTHER           -> [g |-> h.g, state |-> Panic("TLS Waker not set"),
                                    used |-> used \o h.used, done |-> done, hi |-> g.pc]
      [] i.op = "Yield" ->
           [g |-> [g EXCEPT !.pc = @ + 1], state |-> Yielded(Ready(i.v)),
            used |-> used, done |-> done, hi |-> g.pc]
      [] i.op = "Return" ->
           [g |-> [g EXCEPT !.pc = @ + 1], state |-> Complete(ReturnValue(i)),
            used |-> used, done |-> done, hi |-> g.pc]
      [] OTHER ->
           [g |-> g, state |-> Panic("generator"),
            used |-> used, done |-> done, hi |-> g.pc]

resume(body, g, slot) == run(body, g, slot, <<>>, <<>>)


\* --------------------------------------------------------------- adapters
\* What one poll_next call did: the adapter afterwards, what the call gave its
\* caller, the thread-local slot afterwards and while the step ran, how often
\* set_task_waker and resume were called, and the step itself.
Outcome(self, ret, slot, during, bridge, st) ==
  [self |-> self, ret |-> ret, slot |-> slot, during |-> during,
   bridge |-> bridge, gs |-> st.gs, used |-> st.used, done |-> st.done, hi |-> st.hi]

NoStep == [gs |-> <<>>, used |-> <<>>, done |-> <<>>, hi |-> 0]
Step(st) == [gs |-> <<st.state>>, used |-> st.used, done |-> st.done, hi |-> st.hi]

\* impl From<G> for GenStream<G>, GenPerpetualStream<G>, GenTryStream<G>
GenStream_from(inner)          == [inner |-> inner]
GenPerpetualStream_from(inner) == [inner |-> inner]
GenTryStream_from(inner)       == [inner |-> inner, finished |-> FALSE]

from(kd, inner) ==
  CASE kd = "GenStream"          -> GenStream_from(inner)
    [] kd = "GenPerpetualStream" -> GenPerpetualStream_from(inner)
    [] kd = "GenTryStream"       -> GenTryStream_from(inner)

\* GenStream::poll_next that gives Poll::Pending for every Yielded.
GenStream_poll_next_dropsItem(self, body, waker, slot) ==
  LET st  == resume(body, self.inner, Some(waker))
      ret == CASE st.state[1] = "Yielded"  -> Pending
               [] st.state[1] = "Complete" -> Ready(None)
               [] OTHER                    -> st.state
  IN Outcome([self EXCEPT !.inner = st.g], ret, slot, Some(waker), 1, Step(st))

\* GenStream::poll_next that remembers the end: once the generator has
\* returned, it gives Ready(None) without resuming it.
GenStream_poll_next_fused(self, body, waker, slot) ==
  IF self.inner.pc > 1 /\ body[self.inner.pc - 1].op = "Return"
  THEN Outcome(self, Ready(None), slot, slot, 0, NoStep)
  ELSE
    LET st  == resume(body, self.inner, Some(waker))
        ret == CASE st.state[1] = "Yielded"  -> PollMapSome(st.state[2])
                 [] st.state[1] = "Complete" -> Ready(None)
                 [] OTHER                    -> st.state
    IN Outcome([self EXCEPT !.inner = st.g], ret, slot, Some(waker), 1, Step(st))

\* GenStream::poll_next. set_task_waker(waker, f) puts waker in the slot, runs
\* f and puts the old value back when f returns or unwinds.
GenStream_poll_next(self, body, waker, slot) ==
  LET st  == resume(body, self.inner, Some(waker))
      ret == CASE st.state[1] = "Yielded"  -> PollMapSome(st.state[2])
               [] st.state[1] = "Complete" -> Ready(None)
               [] OTHER                    -> st.state
  IN Outcome([self EXCEPT !.inner = st.g], ret, slot, Some(waker), 1, Step(st))

\* GenPerpetualStream::poll_next that resumes the generator outside
\* set_task_waker: the step runs with the slot as the caller left it.
GenPerpetualStream_poll_next_unbridged(self, body, waker, slot) ==
  LET st  == resume(body, self.inner, slot)
      ret == CASE st.state[1] = "Yielded"  -> PollMapSome(st.state[2])
               [] st.state[1] = "Complete" -> Panic("unreachable")
               [] OTHER                    -> st.state
  IN Outcome([self EXCEPT !.inner = st.g], ret, slot, slot, 0, Step(st))

\* GenPerpetualStream::poll_next that takes a suspended yield for the end.
GenPerpetualStream_poll_next_endsOnPending(self, body, waker, slot) ==
  LET st  == resume(body, self.inner, Some(waker))
      ret == CASE st.state[1] = "Yielded"  ->
                    IF st.state[2][1] = "Ready" THEN PollMapSome(st.state[2])
                    ELSE Ready(None)
               [] st.state[1] = "Complete" -> Panic("unreachable")
               [] OTHER                    -> st.state
  IN Outcome([self EXCEPT !.inner = st.g], ret, slot, Some(waker), 1, Step(st))

\* GenPerpetualStream::poll_next that reports a Complete as the end of the
\* sequence, as GenStream does.
GenPerpetualStream_poll_next_endsOnComplete(self, body, waker, slot) ==
  LET st  == resume(body, self.inner, Some(waker))
      ret == CASE st.state[1] = "Yielded"  -> PollMapSome(st.state[2])
               [] st.state[1] = "Complete" -> Ready(None)
               [] OTHER                    -> st.state
  IN Outcome([self EXCEPT !.inner = st.g], ret, slot, Some(waker), 1, Step(st))

\* GenPerpetualStream::poll_next: a Complete is unreachable!().
GenPerpetualStream_poll_next(self, body, waker, slot) ==
  LET st  == resume(body, self.inner, Some(waker))
      ret == CASE st.state[1] = "Yielded"  -> PollMapSome(st.state[2])
               [] st.state[1] = "Complete" -> Panic("unreachable")
               [] OTHER                    -> st.state
  IN Outcome([self EXCEPT !.inner = st.g], ret, slot, Some(waker), 1, Step(st))

\* Faulty variants of GenTryStream::poll_next: `check` says whether the call
\* looks at finished first, latchOk and latchErr whether a Complete(Ok) and a
\* Complete(Err) set it.
TryVariant(self, body, waker, slot, check, latchOk, latchErr) ==
  IF check /\ self.finished
  THEN Outcome(self, Ready(None), slot, slot, 0, NoStep)
  ELSE
    LET st    == resume(body, self.inner, Some(waker))
        isErr == st.state[1] = "Complete" /\ st.state[2][1] = "Err"
        isOk  == st.state[1] = "Complete" /\ st.state[2][1] # "Err"
        ret   == CASE st.state[1] = "Yielded"  -> PollMapSome(PollMapOk(st.state[2]))
                   [] st.state[1] = "Complete" ->
                        IF isErr THEN Ready(Some(Err(st.state[2][2]))) ELSE Ready(None)
                   [] OTHER                    -> st.state
    IN Outcome([inner |-> st.g,
                finished |-> (self.finished \/ (isOk /\ latchOk) \/ (isErr /\ latchErr))],
               ret, slot, Some(waker), 1, Step(st))

\* finished is never looked at.
GenTryStream_poll_next_unlatched(self, body, waker, slot) ==
  TryVariant(self, body, waker, slot, FALSE, TRUE, TRUE)
\* finished is set only by a Complete(Ok(())).
GenTryStream_poll_next_errOpen(self, body, waker, slot) ==
  TryVariant(self, body, waker, slot, TRUE, TRUE, FALSE)
\* finished is set only by a Complete(Err(e)).
GenTryStream_poll_next_okOpen(self, body, waker, slot) ==
  TryVariant(self, body, waker, slot, TRUE, FALSE, TRUE)

\* GenTryStream::poll_next that sets finished at a suspended yield too.
GenTryStream_poll_next_latchesOnPending(self, body, waker, slot) ==
  IF self.finished
  THEN Outcome(self, Ready(None), slot, slot, 0, NoStep)
  ELSE
    LET st  == resume(body, self.inner, Some(waker))
        fin == \/ st.state[1] = "Complete"
               \/ st.state[1] = "Yielded" /\ st.state[2][1] = "Pending"
        ret == CASE st.state[1] = "Yielded"  -> PollMapSome(PollMapOk(st.state[2]))
                 [] st.state[1] = "Complete" ->
                      IF st.state[2][1] = "Err"
                      THEN Ready(Some(Err(st.state[2][2])))
                      ELSE Ready(None)
                 [] OTHER                    -> st.state
    IN Outcome([inner |-> st.g, finished |-> (self.finished \/ fin)],
               ret, slot, Some(waker), 1, Step(st))

\* GenTryStream::poll_next that clears finished when it answers a pull on a
\* finished stream.
GenTryStream_poll_next_relatches(self, body, waker, slot) ==
  IF self.finished
  THEN Outcome([self EXCEPT !.finished = FALSE], Ready(None), slot, slot, 0, NoStep)
  ELSE
    LET st  == resume(body, self.inner, Some(waker))
        fin == st.state[1] = "Complete"
        ret == CASE st.state[1] = "Yielded"  -> PollMapSome(PollMapOk(st.state[2]))
                 [] st.state[1] = "Complete" ->
                      IF st.state[2][1] = "Err"
                      THEN Ready(Some(Err(st.state[2][2])))
                      ELSE Ready(None)
                 [] OTHER                    -> st.state
    IN Outcome([inner |-> st.g, finished |-> (self.finished \/ fin)],
               ret, slot, Some(waker), 1, Step(st))

\* GenTryStream::poll_next without the finished().set(true) of the Complete arm.
GenTryStream_poll_next_neverLatches(self, body, waker, slot) ==
  TryVariant(self, body, waker, slot, TRUE, FALSE, FALSE)

\* GenTryStream::poll_next
GenTryStream_poll_next(self, body, waker, slot) ==
  IF self.finished
  THEN Outcome(self, Ready(None), slot, slot, 0, NoStep)
  ELSE
    LET st  == resume(body, self.inner, Some(waker))
        fin == st.state[1] = "Complete"
        ret == CASE st.state[1] = "Yielded"  -> PollMapSome(PollMapOk(st.state[2]))
                 [] st.state[1] = "Complete" ->
                      IF st.state[2][1] = "Err"
                      THEN Ready(Some(Err(st.state[2][2])))
                      ELSE Ready(None)
                 [] OTHER                    -> st.state
    IN Outcome([inner |-> st.g, finished |-> (self.finished \/ fin)],
               ret, slot, Some(waker), 1, Step(st))

poll_next(kd, self, body, waker, slot) ==
  CASE kd = "GenStream"          -> GenStream_poll_next(self, body, waker, slot)
    [] kd = "GenPerpetualStream" -> GenPerpetualStream_poll_next(self, body, waker, slot)
    [] kd = "GenTryStream"       -> GenTryStream_poll_next(self, body, waker, slot)

\* ------------------------------------------------------------------ state
VARIABLES
  kind,      \* which adapter each instance is
  stream,    \* the adapter: its generator (inner) and, for GenTryStream, finished
  body,      \* the instructions of its generator's body run so far
  out,       \* what each poll_next call gave, in order
  steps,     \* what each resume gave, in order
  awaits,    \* the gen_await! waits that finished, in order
  last,      \* the latest poll_next call
  tls,       \* the thread-local waker slot
  panicked   \* a panic is unwinding the thread

vars == <<kind, stream, body, out, steps, awaits, last, tls, panicked>>

NoCall == [a |-> 0, n |-> 0, waker |-> None, was |-> [inner |-> NewGen], during |-> None,
           bridge |-> 0, resumes |-> 0, used |-> <<>>, ret |-> Pending]

Pulls == Len(out[1]) + Len(out[2])
Revealed == Len(body[1]) + Len(body[2])

Init ==
  /\ kind \in KindPairs
  /\ stream = [a \in Adapters |-> from(kind[a], NewGen)]
  /\ body = [a \in Adapters |-> <<>>]
  /\ out = [a \in Adapters |-> <<>>]
  /\ steps = [a \in Adapters |-> <<>>]
  /\ awaits = [a \in Adapters |-> <<>>]
  /\ last = NoCall
  /\ tls = None
  /\ panicked = FALSE

\* Deliver with the finished latch kept in one place for all GenTryStreams.
Deliver_sharedLatch(a, waker, b, r) ==
  /\ r.hi <= Len(b)
  /\ Len(b) > Len(body[a]) => r.hi = Len(b)
  /\ stream' = [x \in Adapters |->
                 IF x = a THEN r.self
                 ELSE IF kind[x] = "GenTryStream" /\ kind[a] = "GenTryStream"
                 THEN [stream[x] EXCEPT !.finished = r.self.finished]
                 ELSE stream[x]]
  /\ body' = [body EXCEPT ![a] = b]
  /\ out' = [out EXCEPT ![a] = Append(@, r.ret)]
  /\ steps' = [steps EXCEPT ![a] = @ \o r.gs]
  /\ awaits' = [awaits EXCEPT ![a] = @ \o r.done]
  /\ last' = [a |-> a, n |-> Len(out[a]) + 1, waker |-> Some(waker),
              was |-> stream[a], during |-> r.during, bridge |-> r.bridge,
              resumes |-> Len(r.gs), used |-> r.used, ret |-> r.ret]
  /\ tls' = r.slot
  /\ panicked' = IsPanic(r.ret)
  /\ UNCHANGED kind

\* The caller takes what the call r on adapter a gave. The step must have run
\* exactly the instructions known so far and those this pull reveals.
Deliver(a, waker, b, r) ==
  /\ r.hi <= Len(b)
  /\ Len(b) > Len(body[a]) => r.hi = Len(b)
  /\ stream' = [stream EXCEPT ![a] = r.self]
  /\ body' = [body EXCEPT ![a] = b]
  /\ out' = [out EXCEPT ![a] = Append(@, r.ret)]
  /\ steps' = [steps EXCEPT ![a] = @ \o r.gs]
  /\ awaits' = [awaits EXCEPT ![a] = @ \o r.done]
  /\ last' = [a |-> a, n |-> Len(out[a]) + 1, waker |-> Some(waker),
              was |-> stream[a], during |-> r.during, bridge |-> r.bridge,
              resumes |-> Len(r.gs), used |-> r.used, ret |-> r.ret]
  /\ tls' = r.slot
  /\ panicked' = IsPanic(r.ret)
  /\ UNCHANGED kind

GenStreamPull(a, waker) ==
  /\ ~panicked /\ Pulls < MaxPulls
  /\ kind[a] = "GenStream"
  /\ \E ext \in GenStreamChains :
       /\ Revealed + Len(ext) <= MaxBody
       /\ Deliver(a, waker, body[a] \o ext,
                  GenStream_poll_next(stream[a], body[a] \o ext, waker, tls))

GenPerpetualStreamPull(a, waker) ==
  /\ ~panicked /\ Pulls < MaxPulls
  /\ kind[a] = "GenPerpetualStream"
  /\ \E ext \in GenPerpetualStreamChains :
       /\ Revealed + Len(ext) <= MaxBody
       /\ Deliver(a, waker, body[a] \o ext,
                  GenPerpetualStream_poll_next(stream[a], body[a] \o ext, waker, tls))

GenTryStreamPull(a, waker) ==
  /\ ~panicked /\ Pulls < MaxPulls
  /\ kind[a] = "GenTryStream"
  /\ \E ext \in GenTryStreamChains :
       /\ Revealed + Len(ext) <= MaxBody
       /\ Deliver(a, waker, body[a] \o ext,
                  GenTryStream_poll_next(stream[a], body[a] \o ext, waker, tls))

Next ==
  \E a \in Adapters, waker \in Wakers :
    \/ GenStreamPull(a, waker)
    \/ GenPerpetualStreamPull(a, waker)
    \/ GenTryStreamPull(a, waker)

Spec == Init /\ [][Next]_vars


\* ------------------------------------------------------------- properties
Try(a)  == kind[a] = "GenTryStream"
Gen(a)  == kind[a] = "GenStream"
Perp(a) == kind[a] = "GenPerpetualStream"
Pulled(a) == last.n > 0 /\ last.a = a
IsErrItem(x) == IsReadySome(x) /\ x[2][2][1] = "Err"
IsOkItem(x)  == IsReadySome(x) /\ x[2][2][1] = "Ok"

\* C1: a poll_next call on a GenTryStream whose finished is true does not
\* resume the generator, changes nothing of the adapter and gives Ready(None),
\* however many pulls were made since the latch was set.
C1_FinishedPullEnds ==
  [][\A a \in Adapters :
       (Try(a) /\ stream[a].finished /\ out'[a] # out[a])
         => /\ steps'[a] = steps[a]
            /\ body'[a] = body[a]
            /\ stream'[a] = stream[a]
            /\ out'[a] = Append(out[a], Ready(None))]_vars

\* Three pulls in a row were made on a finished GenTryStream.
C1_Witness ==
  \E a \in Adapters :
    /\ Try(a) /\ stream[a].finished /\ Pulled(a) /\ last.was.finished
    /\ Len(out[a]) >= Len(steps[a]) + 3

\* C2: on a GenTryStream the step that returns Complete(Err(e)) is the last
\* step; its pull sets finished and gives Ready(Some(Err(e))); every later
\* pull gives Ready(None); an Err item is given by no other pull.
C2_ErrItemOnceThenEnd ==
  \A a \in Adapters : Try(a) =>
    /\ Len(steps[a]) <= Len(out[a])
    /\ \A i \in 1..Len(out[a]) :
         LET isErrStep == /\ i <= Len(steps[a])
                          /\ steps[a][i][1] = "Complete"
                          /\ steps[a][i][2][1] = "Err"
         IN /\ isErrStep =>
                 /\ out[a][i] = Ready(Some(Err(steps[a][i][2][2])))
                 /\ i = Len(steps[a])
                 /\ stream[a].finished
                 /\ \A j \in (i + 1)..Len(out[a]) : out[a][j] = Ready(None)
            /\ IsErrItem(out[a][i]) => isErrStep

\* An Ok item, then the Err item, then two pulls after it.
C2_Witness ==
  \E a \in Adapters :
    /\ Try(a) /\ Len(out[a]) = 4
    /\ IsOkItem(out[a][1]) /\ out[a][2] = Ready(Some(Err(2)))
    /\ out[a][4] = Ready(None)


IsReadyYield(st)   == st[1] = "Yielded" /\ st[2][1] = "Ready"
IsPendingYield(st) == st[1] = "Yielded" /\ st[2][1] = "Pending"
IsComplete(st)     == st[1] = "Complete"
IsPlainItem(x)     == IsReadySome(x) /\ x[2][2][1] # "Err"

\* The items a caller of the generator itself would see, as the adapter of
\* kind[a] hands them on: Some(v), and Some(Ok(v)) for GenTryStream.
Handed(a, st) == IF Try(a) THEN Ready(Some(Ok(st[2][2]))) ELSE Ready(Some(st[2][2]))
Yields(a)     == SelectSeq(steps[a], IsReadyYield)
HandedOn(a)   == [i \in 1..Len(Yields(a)) |-> Handed(a, Yields(a)[i])]
Items(a)      == SelectSeq(out[a], IsReadySome)
YieldedItems(a) ==
  IF Try(a) THEN SelectSeq(out[a], IsOkItem) ELSE SelectSeq(out[a], IsReadySome)

\* Pull i gives Pending exactly when step i yields Poll::Pending, and gives the
\* item of step i when step i yields one; a pull without a step gives neither.
StepByStep(a) ==
  /\ Len(steps[a]) <= Len(out[a])
  /\ \A i \in 1..Len(out[a]) :
       IF i <= Len(steps[a])
       THEN /\ IsPendingYield(steps[a][i]) <=> IsPending(out[a][i])
            /\ IsReadyYield(steps[a][i]) => out[a][i] = Handed(a, steps[a][i])
       ELSE ~IsPending(out[a][i]) /\ ~IsReadySome(out[a][i])

\* C3 as stated: the Ready(Some(_)) items of every adapter are the generator's
\* Yielded(Poll::Ready(_)) values, in order (in Ok for GenTryStream), and the
\* Pending pulls are its Yielded(Poll::Pending) steps.
C3_Original ==
  \A a \in Adapters : Items(a) = HandedOn(a) /\ StepByStep(a)

\* C3, amended: for GenStream and GenPerpetualStream the Ready(Some(_)) items,
\* and for GenTryStream the Ready(Some(Ok(_))) items, are the generator's
\* Yielded(Poll::Ready(_)) values in order, each given by the pull of its step;
\* the Pending pulls are the Yielded(Poll::Pending) steps; a GenTryStream gives
\* beyond them at most one item, the Err(e) of a Complete(Err(e)), last.
C3_ItemsAreYields ==
  \A a \in Adapters :
    /\ YieldedItems(a) = HandedOn(a)
    /\ StepByStep(a)
    /\ Len(Items(a)) <= Len(YieldedItems(a)) + 1
    /\ Len(Items(a)) > Len(YieldedItems(a)) =>
         /\ Try(a) /\ IsComplete(steps[a][Len(steps[a])])
         /\ Items(a)[Len(Items(a))] = Ready(Some(steps[a][Len(steps[a])][2]))

\* Two different items in the order yielded, a suspension between them.
C3_Witness ==
  \E a \in Adapters :
    /\ Len(out[a]) = 3 /\ IsPending(out[a][2])
    /\ IsReadySome(out[a][1]) /\ IsReadySome(out[a][3])
    /\ out[a][1] # out[a][3]

\* C4: a GenPerpetualStream whose generator only ever yields gives, at every
\* pull, Ready(Some(item)) or Pending, and never Ready(None).
C4_PerpetualNeverEnds ==
  \A a \in Adapters :
    (Perp(a) /\ \A i \in 1..Len(steps[a]) : steps[a][i][1] = "Yielded")
      => \A i \in 1..Len(out[a]) : IsReadySome(out[a][i]) \/ IsPending(out[a][i])

\* Four pulls on a perpetual stream, items and suspensions among them.
C4_Witness ==
  \E a \in Adapters :
    /\ Perp(a) /\ Len(out[a]) >= 4
    /\ \A i \in 1..Len(steps[a]) : steps[a][i][1] = "Yielded"
    /\ \E i, j \in 1..Len(out[a]) : IsPending(out[a][i]) /\ IsReadySome(out[a][j])

RECURSIVE SumYields(_)
SumYields(recs) == IF recs = <<>> THEN 0 ELSE Head(recs).yields + SumYields(Tail(recs))

\* C5: a wait on an operation that is Pending k times yields Poll::Pending k
\* times, polls the operation k + 1 times, once per step, and ends at the
\* (k + 1)-th poll with the operation's value; a wait under way has yielded once
\* per poll; the generator yields Poll::Pending for no other reason.
C5_AwaitRoundTrip ==
  \A a \in Adapters :
    LET g == stream[a].inner IN
    /\ \A i \in 1..Len(awaits[a]) :
         LET w == awaits[a][i] IN
         w.yields = w.k /\ w.polls = w.k + 1 /\ w.got = w.x
    /\ g.awaiting =>
         /\ body[a][g.pc].op = "Await"
         /\ g.polls >= 1 /\ g.yields = g.polls /\ g.polls <= body[a][g.pc].k
    /\ Len(SelectSeq(steps[a], IsPendingYield)) = SumYields(awaits[a]) + g.yields

\* A wait that was suspended twice has ended.
C5_Witness ==
  \E a \in Adapters : \E i \in 1..Len(awaits[a]) :
    /\ awaits[a][i].k = 2 /\ awaits[a][i].polls = 3
    /\ Len(SelectSeq(steps[a], IsPendingYield)) = 2

\* C6: every pull on a GenStream resumes the generator once, also after a
\* Complete, and gives Ready(None) exactly when that step returns Complete.
C6_GenStreamHasNoLatch ==
  \A a \in Adapters : Gen(a) =>
    /\ Len(steps[a]) = Len(out[a])
    /\ \A i \in 1..Len(out[a]) : IsReadyNone(out[a][i]) <=> IsComplete(steps[a][i])

\* After Ready(None), a pull stepped the generator again and gave its item.
C6_Witness ==
  \E a \in Adapters :
    /\ Gen(a) /\ Len(out[a]) >= 2 /\ Pulled(a) /\ last.resumes = 1
    /\ IsReadyNone(out[a][Len(out[a]) - 1])
    /\ IsReadySome(out[a][Len(out[a])])


\* An adapter of kind kd over a generator with the given body, pulled n times
\* with nothing else running: the adapter afterwards and what the pulls gave.
RECURSIVE Alone(_, _, _)
Alone(kd, b, n) ==
  IF n = 0 THEN [self |-> from(kd, NewGen), out |-> <<>>]
  ELSE LET p == Alone(kd, b, n - 1)
           r == poll_next(kd, p.self, b, CHOOSE w \in Wakers : TRUE, None)
       IN [self |-> r.self, out |-> Append(p.out, r.ret)]

\* C7: whatever the interleaving of the pulls on the two adapters, each adapter
\* has given what it gives when it alone is pulled as often, stands at the same
\* place of its generator, and has the same finished latch.
C7_AdaptersDoNotMix ==
  \A a \in Adapters :
    LET alone == Alone(kind[a], body[a], Len(out[a])) IN
    /\ out[a] = alone.out
    /\ stream[a].inner.pc = alone.self.inner.pc
    /\ Try(a) => stream[a].finished = alone.self.finished

\* Both adapters were pulled and gave items; one GenTryStream has finished
\* while the other has not.
C7_Witness ==
  /\ \A a \in Adapters : Try(a) /\ Len(Items(a)) >= 1
  /\ stream[1].finished /\ ~stream[2].finished
  /\ Len(out[1]) >= 2 /\ Pulled(2)

\* C8: the pull whose step returns Complete(Ok(())) on a GenTryStream sets
\* finished and gives Ready(None): no item.
C8_OkCompletionGivesNoItem ==
  [][\A a \in Adapters :
       (/\ Try(a) /\ steps'[a] # steps[a]
        /\ IsComplete(steps'[a][Len(steps'[a])])
        /\ steps'[a][Len(steps'[a])][2][1] = "Ok")
         => /\ Len(steps'[a]) = Len(steps[a]) + 1
            /\ stream'[a].finished
            /\ out'[a] = Append(out[a], Ready(None))]_vars

\* An Ok item, then the pull of the step that returned Complete(Ok(())).
C8_Witness ==
  \E a \in Adapters :
    /\ Try(a) /\ Pulled(a) /\ last.resumes = 1 /\ ~last.was.finished
    /\ Len(out[a]) = 2 /\ IsOkItem(out[a][1]) /\ IsReadyNone(out[a][2])
    /\ steps[a][2] = Complete(Ok(Unit))
    /\ stream[a].finished

\* C9 as stated: every pull on every adapter calls set_task_waker once and
\* resumes the generator once.
C9_Original ==
  last.n > 0 => last.bridge = 1 /\ last.resumes = 1

\* C9, amended: a pull on a GenStream, on a GenPerpetualStream, or on a
\* GenTryStream whose finished is false calls set_task_waker once, around one
\* resume, with the pull's waker; a pull on a GenTryStream whose finished is
\* true calls neither.
C9_OneStepPerLivePull ==
  last.n > 0 =>
    IF Try(last.a) /\ last.was.finished
    THEN last.bridge = 0 /\ last.resumes = 0
    ELSE last.bridge = 1 /\ last.resumes = 1 /\ last.during = last.waker

\* Pulls of both sorts: the one that finished a GenTryStream stepped it.
C9_Witness ==
  /\ last.n >= 2 /\ Try(last.a) /\ ~last.was.finished /\ stream[last.a].finished
  /\ last.bridge = 1 /\ last.resumes = 1

\* C10: no waker is in the thread-local slot between pulls; a step runs with
\* the waker of its own pull in the slot, and every poll gen_await! makes of a
\* nested operation, the polls after a suspension too, uses that waker.
C10_ContextIsThePullsOwn ==
  /\ tls = None
  /\ last.n > 0 =>
       /\ last.resumes > 0 => last.during = last.waker
       /\ \A i \in 1..Len(last.used) : last.used[i] = last.waker

\* A wait that was suspended under one waker is polled again under another.
C10_Witness ==
  /\ last.n > 0 /\ last.was.inner.awaiting
  /\ last.was.inner.reg # None /\ last.was.inner.reg # last.waker
  /\ Len(last.used) >= 1 /\ last.used[1] = last.waker
  /\ tls = None

\* C11: when a step of the generator of a GenPerpetualStream returns Complete,
\* the pull gives no Poll value, neither Ready(None) nor an item nor Pending: it
\* panics in unreachable!(), the panic unwinds the thread, and no pull follows
\* it; the adapter panics of its own accord for no other reason.
C11_CompleteIsFatal ==
  \A a \in Adapters : Perp(a) =>
    /\ Len(steps[a]) = Len(out[a])
    /\ \A i \in 1..Len(out[a]) :
         /\ IsComplete(steps[a][i]) =>
              /\ out[a][i] = Panic("unreachable")
              /\ ~IsReadyNone(out[a][i]) /\ ~IsReadySome(out[a][i])
              /\ ~IsPending(out[a][i])
              /\ i = Len(out[a])
              /\ panicked /\ last.a = a /\ last.ret = Panic("unreachable")
         /\ out[a][i] = Panic("unreachable") => IsComplete(steps[a][i])

\* A perpetual stream gave an item and a suspension before its generator
\* returned.
C11_Witness ==
  \E a \in Adapters :
    /\ Perp(a) /\ Len(out[a]) = 3 /\ panicked
    /\ IsReadySome(out[a][1]) /\ IsPending(out[a][2])
    /\ IsComplete(steps[a][3]) /\ out[a][3] = Panic("unreachable")

\* C12: a pull whose step returns Yielded, a ready item or a suspension, makes
\* one step and changes nothing of the adapter but the place of its generator:
\* finished of a GenTryStream is false before and after it; a suspended yield
\* gives Pending; and the pull that follows a Yielded step steps the generator
\* again.
C12_YieldedKeepsAdapter ==
  [][\A a \in Adapters :
       /\ (steps'[a] # steps[a] /\ steps'[a][Len(steps'[a])][1] = "Yielded")
            => /\ Len(steps'[a]) = Len(steps[a]) + 1
               /\ stream'[a] = [stream[a] EXCEPT !.inner = stream'[a].inner]
               /\ Try(a) => ~stream[a].finished /\ ~stream'[a].finished
               /\ IsPendingYield(steps'[a][Len(steps'[a])])
                    => out'[a] = Append(out[a], Pending)
               /\ IsReadyYield(steps'[a][Len(steps'[a])])
                    => out'[a] = Append(out[a], Handed(a, steps'[a][Len(steps'[a])]))
       /\ (/\ out'[a] # out[a] /\ steps[a] # <<>>
           /\ steps[a][Len(steps[a])][1] = "Yielded")
            => /\ Len(steps'[a]) = Len(steps[a]) + 1
               /\ last'.resumes = 1]_vars

\* A GenTryStream was pulled after an item and after a suspension, stepped its
\* generator each time, and is not finished.
C12_Witness ==
  \E a \in Adapters :
    /\ Try(a) /\ Pulled(a) /\ last.resumes = 1 /\ ~stream[a].finished
    /\ Len(steps[a]) = 4 /\ Len(out[a]) = 4
    /\ IsOkItem(out[a][1]) /\ IsPending(out[a][2]) /\ IsPending(out[a][3])
    /\ IsOkItem(out[a][4])

Completed(st) == \E i \in 1..Len(st) : IsComplete(st[i])

\* C13: finished of a GenTryStream is false at construction; once true it
\* stays true, so it goes from false to true at most once; in every state it is
\* true exactly when a step of the generator has returned Complete; and the
\* generator is not resumed after a step that returned Complete.
C13_FinishedIsCompleteLatch ==
  /\ \A a \in Adapters : Try(a) => ~stream[a].finished /\ ~Completed(steps[a])
  /\ [][\A a \in Adapters : Try(a) =>
          /\ stream[a].finished => stream'[a].finished
          /\ stream'[a].finished <=> Completed(steps'[a])
          /\ (~stream[a].finished /\ stream'[a].finished)
               => /\ Len(steps'[a]) = Len(steps[a]) + 1
                  /\ IsComplete(steps'[a][Len(steps'[a])])
          /\ Completed(steps[a])
               => /\ steps'[a] = steps[a]
                  /\ stream'[a].inner = stream[a].inner]_vars

\* A GenTryStream that made two steps, the second a Complete, was pulled once
\* more; the other GenTryStream has made a step and is not finished.
C13_Witness ==
  \E a, b \in Adapters :
    /\ Try(a) /\ stream[a].finished
    /\ Len(steps[a]) = 2 /\ IsComplete(steps[a][2]) /\ Len(out[a]) = 3
    /\ Try(b) /\ ~stream[b].finished /\ Len(steps[b]) >= 1

\* ------------------------------------------- a GenTryStream pulled to its end
\* Generators that return after finitely many steps: waits on operations that
\* become ready after at most MaxK polls and yields, then a return.
TryBodies ==
  UNION {{c \o <<i>> : c \in [1..(n - 1) -> AwaitI \cup YieldI],
                        i \in ReturnI("GenTryStream")} : n \in 1..MaxBody}

\* The last pull on a gave Ready(None).
Ended(a) == out[a] # <<>> /\ IsReadyNone(out[a][Len(out[a])])

\* Two GenTryStreams over such generators, the bodies known from the start.
\* The two are interchangeable: the longer body is the first.
LiveInit ==
  /\ kind = [a \in Adapters |-> "GenTryStream"]
  /\ stream = [a \in Adapters |-> GenTryStream_from(NewGen)]
  /\ body \in {f \in [Adapters -> TryBodies] :
                 Len(f[1]) + Len(f[2]) <= MaxBody /\ Len(f[1]) >= Len(f[2])}
  /\ out = [a \in Adapters |-> <<>>]
  /\ steps = [a \in Adapters |-> <<>>]
  /\ awaits = [a \in Adapters |-> <<>>]
  /\ last = NoCall
  /\ tls = None
  /\ panicked = FALSE

\* The task that consumes stream a pulls it, with its own waker, until a pull
\* gives Ready(None).
ConsumerPull(a) ==
  /\ ~panicked /\ ~Ended(a)
  /\ \E r \in {GenTryStream_poll_next(stream[a], body[a], a, tls)} :
       Deliver(a, a, body[a], r)

LiveNext == \E a \in Adapters : ConsumerPull(a)

\* Each consumer keeps pulling its stream.
LiveSpec ==
  /\ LiveInit /\ [][LiveNext]_vars
  /\ \A a \in Adapters : WF_vars(ConsumerPull(a))

\* The pulls a generator body needs to reach its return: one per suspension,
\* one per yield, one for the return.
RECURSIVE StepsOf(_)
StepsOf(b) ==
  IF b = <<>> THEN 0
  ELSE (CASE Head(b).op = "Await"  -> Head(b).k
          [] Head(b).op = "Yield"  -> 1
          [] Head(b).op = "Return" -> 1
          [] OTHER                 -> 0) + StepsOf(Tail(b))

\* C14: when the consumer keeps pulling a GenTryStream whose generator returns
\* after finitely many steps, every awaited operation becoming ready after
\* finitely many polls, a pull eventually gives Ready(None), and from then on
\* finished is true for ever. The adapter adds
\* no suspension and no wait: the pulls that give Pending are the generator's
\* suspended steps, and the stream has ended after as many pulls as the
\* generator needs steps, and one more when it returned Err.
C14_EventuallyEnds ==
  /\ <>[](\A a \in Adapters : stream[a].finished /\ Ended(a))
  /\ [](\A a \in Adapters :
          /\ StepByStep(a)
          /\ Len(steps[a]) <= StepsOf(body[a])
          /\ Len(out[a]) > StepsOf(body[a]) + 1 => Ended(a) /\ stream[a].finished
          /\ Len(out[a]) > StepsOf(body[a]) =>
                /\ stream[a].finished
                /\ Ended(a) \/ IsErrItem(out[a][Len(out[a])]))

\* A stream was suspended twice, gave the Err item of its generator's return
\* and then Ready(None); the other stream has ended too.
C14_Witness ==
  /\ \A a \in Adapters : stream[a].finished /\ Ended(a)
  /\ \E a \in Adapters :
       /\ Len(out[a]) = 4
       /\ IsPending(out[a][1]) /\ IsPending(out[a][2]) /\ IsErrItem(out[a][3])

=============================================================================
